---------------------------- MODULE Spec2Model ----------------------------
(***************************************************************************)
(* A model of the content extraction service: the /extract handler of      *)
(* api2.py and the two functions of xhs.py it calls, extract_xhs_content    *)
(* and download_images.                                                     *)
(*                                                                          *)
(* Texts, URLs, file names and header values are sequences of one-character *)
(* strings, so that the regular expression, urlparse, str.split, str.lower  *)
(* and str.endswith are computed character by character.  The messages of   *)
(* the handler are Chinese in the source; the module holds them in English  *)
(* (its strings are ASCII), one distinct string per distinct source string. *)
(***************************************************************************)
EXTENDS Integers, Sequences, FiniteSets, TLC

VARIABLES
    pc,                \* the position of the running call
    text,              \* request.text
    download_flag,     \* request.download_images
    save_dir,          \* request.save_dir / the save_dir argument
    urls,              \* re.findall(url_pattern, request.text)
    url,               \* the url handed to extract_xhs_content
    status,            \* the outcome of the page GET
    html,              \* the body handed to BeautifulSoup
    content,           \* what extract_xhs_content returned
    image_urls,        \* the image_urls argument of download_images
    i,                 \* enumerate's index in download_images (0-based)
    fetched,           \* per image URL tried: the outcome of its download
    downloaded_paths,  \* download_images' result list
    raised,            \* the exception download_images let through, if any
    gets,              \* every requests.get issued, in order
    response           \* what the handler answers

vars == <<pc, text, download_flag, save_dir, urls, url, status, html, content,
          image_urls, i, fetched, downloaded_paths, raised, gets, response>>

(***************************************************************************)
(* Bounds of the model.                                                     *)
(***************************************************************************)
MaxPieces == 4
MaxImages == 2

(***************************************************************************)
(* Python values.  None and an absent attribute are the empty tuple, a      *)
(* value v is <<v>>.                                                        *)
(***************************************************************************)
None == <<>>
Some(v) == <<v>>

Last(s) == s[Len(s)]

RECURSIVE Flatten(_)
Flatten(ss) == IF ss = <<>> THEN <<>> ELSE Head(ss) \o Flatten(Tail(ss))

SeqsUpTo(S, n) == UNION {[1..k -> S] : k \in 0..n}

(***************************************************************************)
(* URL Locator: the regular expression of the handler,                      *)
(*   https?://(?:www\.)?(?:xiaohongshu\.com|xhslink\.com)/[^\s<>"']+(?<![\s.,]) *)
(* matched the way re.findall does: leftmost, greedy, backtracking.         *)
(***************************************************************************)
LitHttp == <<"h","t","t","p">>
LitS == <<"s">>
LitColonSlashes == <<":","/","/">>
LitWww == <<"w","w","w",".">>
LitXiaohongshu == <<"x","i","a","o","h","o","n","g","s","h","u",".","c","o","m">>
LitXhslink == <<"x","h","s","l","i","n","k",".","c","o","m">>
LitSlash == <<"/">>

Whitespace == {" ", "\t", "\n", "\r"}

\* [^\s<>"']
PathChar(c) == c \notin Whitespace \cup {"<", ">", "\"", "'"}

\* (?<![\s.,]) at the position after character c
LookbehindOk(c) == c \notin Whitespace \cup {".", ","}

HasAt(t, p, lit) ==
    /\ p >= 1
    /\ p + Len(lit) - 1 <= Len(t)
    /\ \A k \in 1..Len(lit) : t[p + k - 1] = lit[k]

\* An optional literal: taken when present (greedy); the position after it.
Optional(t, p, lit) == IF p > 0 /\ HasAt(t, p, lit) THEN p + Len(lit) ELSE p

\* A required literal: the position after it, 0 when it is not there.
Required(t, p, lit) == IF p > 0 /\ HasAt(t, p, lit) THEN p + Len(lit) ELSE 0

\* (?:xiaohongshu\.com|xhslink\.com)
HostAlt(t, p) ==
    IF Required(t, p, LitXiaohongshu) > 0 THEN Required(t, p, LitXiaohongshu)
    ELSE Required(t, p, LitXhslink)

\* The position of the path's first character when the fixed part of the
\* pattern matches at s, else 0.  Without the optional "s" or "www." the next
\* literal cannot match where they stand, so taking them when present is all
\* the backtracking there is.
PrefixEnd(t, s) ==
    LET p1 == Required(t, s, LitHttp)
        p2 == Optional(t, p1, LitS)
        p3 == Required(t, p2, LitColonSlashes)
        p4 == Optional(t, p3, LitWww)
        p5 == HostAlt(t, p4)
    IN  Required(t, p5, LitSlash)

\* [^\s<>"']+ is greedy: the last position of the run of path characters
\* that starts at p (p - 1 when there is none).
RECURSIVE RunEnd(_, _)
RunEnd(t, p) ==
    IF p <= Len(t) /\ PathChar(t[p]) THEN RunEnd(t, p + 1) ELSE p - 1

\* Backtracking from the greedy end e down to the path's first character p:
\* the last position at which the lookbehind holds, 0 when there is none.
RECURSIVE Backtrack(_, _, _)
Backtrack(t, p, e) ==
    IF e < p THEN 0
    ELSE IF LookbehindOk(t[e]) THEN e
    ELSE Backtrack(t, p, e - 1)

\* The end of the match that starts at s, 0 when none starts there.
MatchEnd(t, s) ==
    LET p == PrefixEnd(t, s)
    IN  IF p = 0 THEN 0 ELSE Backtrack(t, p, RunEnd(t, p))

\* re.findall: the non-overlapping matches, scanning from position s.
RECURSIVE FindAll(_, _)
FindAll(t, s) ==
    IF s > Len(t) THEN <<>>
    ELSE LET e == MatchEnd(t, s)
         IN  IF e > 0
             THEN <<SubSeq(t, s, e)>> \o FindAll(t, e + 1)
             ELSE FindAll(t, s + 1)

\* Variant: the last match, urls[-1].
FirstUrlLast(found) == found[Len(found)]

\* url = urls[0]
FirstUrl(found) == found[1]

(***************************************************************************)
(* The handler's errors.  An exception is its type, status code and detail. *)
(***************************************************************************)
MsgNoUrl == "no valid xiaohongshu link found in the input text"
MsgNoContent == "cannot extract content, check that the link is valid"
MsgImagesFailed == "image download failed"
MsgPrefix == "error while handling the request: "
MsgMakedirs == "[Errno 13] Permission denied"

HTTPException(code, detail) ==
    [type |-> "HTTPException", status_code |-> code, detail |-> detail]
OSError(msg) == [type |-> "OSError", status_code |-> 0, detail |-> msg]

\* Variant: an exception whose str() is empty.
StrNoDetail(e) == ""

\* str(e): Starlette's HTTPException.__str__ is "<status_code>: <detail>";
\* an OSError's is its message.
Str(e) ==
    IF e.type = "HTTPException"
    THEN ToString(e.status_code) \o ": " \o e.detail
    ELSE e.detail

\* except Exception as e: raise HTTPException(500, prefix + str(e))
CatchAll(e) == HTTPException(500, MsgPrefix \o Str(e))

NoResponse == [kind |-> "pending", status_code |-> 0, detail |-> "", body |-> None]
ErrorResponse(e) ==
    [kind |-> "error", status_code |-> e.status_code, detail |-> e.detail,
     body |-> None]
OkResponse(record) ==
    [kind |-> "ok", status_code |-> 200, detail |-> "", body |-> Some(record)]

\* save_dir's default, 'images'
DirImages == <<"i","m","a","g","e","s">>

(***************************************************************************)
(* Inputs of the locator.                                                   *)
(***************************************************************************)
PieceNote == <<"h","t","t","p","s",":","/","/","w","w","w",".","x","i","a","o","h","o","n","g","s","h","u",".","c","o","m","/","e">>
PieceShort == <<"h","t","t","p",":","/","/","x","h","s","l","i","n","k",".","c","o","m","/","e">>
PieceOther == <<"h","t","t","p","s",":","/","/","w","w","w",".","g","o","o","g","l","e",".","c","o","m","/","e">>
PieceNoPath == <<"h","t","t","p","s",":","/","/","x","h","s","l","i","n","k",".","c","o","m","/">>

Pieces == {PieceNote, PieceShort, PieceOther, PieceNoPath,
           <<".">>, <<",">>, <<" ">>, <<"<">>}

Texts == {Flatten(ps) : ps \in SeqsUpTo(Pieces, MaxPieces)}

(***************************************************************************)
(* The handler, lines 33-40: locate the URL.                                *)
(***************************************************************************)
Idle ==
    /\ urls = <<>>
    /\ status = None
    /\ html = None
    /\ content = None
    /\ i = 0
    /\ fetched = <<>>
    /\ downloaded_paths = <<>>
    /\ raised = None
    /\ gets = <<>>
    /\ response = NoResponse

\* Variant: no error when nothing matches, the whole text is fetched instead.
LocateAlways ==
    /\ pc = "locate"
    /\ urls' = FindAll(text, 1)
    /\ IF urls' = <<>>
       THEN /\ pc' = "fetch"
            /\ url' = Some(text)
            /\ UNCHANGED response
       ELSE /\ pc' = "fetch"
            /\ url' = Some(FirstUrl(urls'))
            /\ UNCHANGED response
    /\ UNCHANGED <<text, download_flag, save_dir, status, html, content,
                   image_urls, i, fetched, downloaded_paths, raised, gets>>

\* urls = re.findall(...); if not urls: raise ...; url = urls[0]
Locate ==
    /\ pc = "locate"
    /\ urls' = FindAll(text, 1)
    /\ IF urls' = <<>>
       THEN /\ pc' = "done"
            /\ response' = ErrorResponse(CatchAll(HTTPException(400, MsgNoUrl)))
            /\ UNCHANGED url
       ELSE /\ pc' = "fetch"
            /\ url' = Some(FirstUrl(urls'))
            /\ UNCHANGED response
    /\ UNCHANGED <<text, download_flag, save_dir, status, html, content,
                   image_urls, i, fetched, downloaded_paths, raised, gets>>

LocatorInit ==
    /\ pc = "locate"
    /\ text \in Texts
    /\ download_flag = FALSE
    /\ save_dir = DirImages
    /\ url = None
    /\ image_urls = <<>>
    /\ Idle

LocatorNext == Locate

LocatorSpec == LocatorInit /\ [][LocatorNext]_vars

(***************************************************************************)
(* What the pattern accepts, stated without the matching procedure.         *)
(***************************************************************************)
Schemes == {LitHttp \o LitColonSlashes, LitHttp \o LitS \o LitColonSlashes}
KnownHosts == {LitXiaohongshu, LitXhslink}
UrlHeads ==
    {sch \o w \o h \o LitSlash : sch \in Schemes, w \in {<<>>, LitWww}, h \in KnownHosts}

WellFormed(u) ==
    \E hd \in UrlHeads :
        /\ Len(u) > Len(hd)
        /\ SubSeq(u, 1, Len(hd)) = hd
        /\ \A k \in (Len(hd) + 1)..Len(u) : PathChar(u[k])
        /\ Last(u) \notin {".", ","}

\* The start offsets (1-based) at which some well-formed URL begins.
Starts(t) ==
    {s \in 1..Len(t) :
        \E hd \in UrlHeads :
            /\ HasAt(t, s, hd)
            /\ \E e \in (s + Len(hd))..Len(t) : WellFormed(SubSeq(t, s, e))}

Min(S) == CHOOSE m \in S : \A n \in S : m <= n

\* C1: whenever the text holds a well-formed matching URL, the URL handed on
\* is a well-formed URL that begins at the smallest start offset of any such
\* URL in the text and does not end in '.' or ','; a text without one is
\* answered with the error.
C1_FirstUrlByOffset ==
    pc # "locate" =>
        IF Starts(text) = {}
        THEN urls = <<>> /\ url = None /\ response.kind = "error"
        ELSE /\ url # None
             /\ WellFormed(url[1])
             /\ Last(url[1]) \notin {".", ","}
             /\ HasAt(text, Min(Starts(text)), url[1])
             /\ url[1] = urls[1]

\* A text with two matches, the first of which had trailing punctuation cut.
C1_Witness ==
    /\ pc = "fetch"
    /\ Len(urls) >= 2
    /\ url = Some(urls[1])
    /\ Min(Starts(text)) + Len(url[1]) <= Len(text)
    /\ text[Min(Starts(text)) + Len(url[1])] \in {".", ","}

(***************************************************************************)
(* extract_xhs_content: one GET of the page, raise_for_status, then the     *)
(* meta tags of the parsed body.                                            *)
(***************************************************************************)
\* What requests.get comes back with: a RequestException (no response), or
\* a response with a status code.
ConnectionError == [error |-> TRUE, code |-> 0]
HttpResponse(code) == [error |-> FALSE, code |-> code]

StatusCodes == {101, 200, 204, 304, 400, 404, 500, 599}
PageOutcomes == {ConnectionError} \cup {HttpResponse(c) : c \in StatusCodes}

\* Variant: every status outside 200-299 raises.
RaiseForStatusNon2xx(code) == code < 200 \/ code >= 300

\* Response.raise_for_status raises HTTPError for 4xx and 5xx.
RaiseForStatus(code) == (400 <= code /\ code < 500) \/ (500 <= code /\ code < 600)

PageGet == [kind |-> "page", index |-> 0]
ImageGet(k) == [kind |-> "image", index |-> k]

\* The parsed document: for each meta name, the content attributes of the
\* meta tags of that name in document order (None: a tag without content).
ScalarNames == {"og:title", "description", "og:xhs:note_like",
                "og:xhs:note_comment", "og:xhs:note_collect"}
TagNames == ScalarNames \cup {"og:image"}

\* Variant: the last tag of the name.
FindLastTag(doc, n) == IF doc[n] = <<>> THEN None ELSE Some(doc[n][Len(doc[n])])

\* soup.find('meta', attrs={'name': n}): the first such tag, or None.
Find(doc, n) == IF doc[n] = <<>> THEN None ELSE Some(doc[n][1])

\* soup.find_all('meta', attrs={'name': n})
FindAllTags(doc, n) == doc[n]

\* tag.get('content', default)
Get(tag, default) == IF tag = None THEN default ELSE tag[1]

\* og = soup.find(...); value = None; if og: value = og.get('content', '')
\* (a Tag is always truthy)
Field(doc, n) ==
    LET og == Find(doc, n)
    IN  IF og # None THEN Some(Get(og[1], "")) ELSE None

\* for img in og_images: img_url = img.get('content', ''); if img_url: append
RECURSIVE CollectImages(_)
CollectImages(tags) ==
    IF tags = <<>> THEN <<>>
    ELSE LET img_url == Get(Head(tags), <<>>)
         IN  IF img_url # <<>>
             THEN <<img_url>> \o CollectImages(Tail(tags))
             ELSE CollectImages(Tail(tags))

\* The dict returned at lines 82-89.
Extract(doc) ==
    [title      |-> Field(doc, "og:title"),
     content    |-> Field(doc, "description"),
     image_urls |-> CollectImages(FindAllTags(doc, "og:image")),
     likes      |-> Field(doc, "og:xhs:note_like"),
     comments   |-> Field(doc, "og:xhs:note_comment"),
     collects   |-> Field(doc, "og:xhs:note_collect")]

\* A body the parser gives up on (any exception of lines 41-89).
Unparseable == [parses |-> FALSE, doc |-> [n \in TagNames |-> <<>>]]
Parsed(doc) == [parses |-> TRUE, doc |-> doc]

\* requests.get(url, headers=headers); response.raise_for_status()
FetchPage ==
    /\ pc = "fetch"
    /\ gets' = Append(gets, PageGet)
    /\ \E r \in PageOutcomes :
        /\ status' = Some(r)
        /\ IF r.error \/ RaiseForStatus(r.code)
           THEN pc' = "extracted" /\ content' = None
           ELSE pc' = "parse" /\ UNCHANGED content
    /\ UNCHANGED <<text, download_flag, save_dir, urls, url, html, image_urls,
                   i, fetched, downloaded_paths, raised, response>>

\* BeautifulSoup(response.text, 'html.parser') and the lookups, lines 41-96.
ParsePage(Bodies) ==
    /\ pc = "parse"
    /\ \E body \in Bodies :
        /\ html' = Some(body)
        /\ content' = IF body.parses THEN Some(Extract(body.doc)) ELSE None
    /\ pc' = "extracted"
    /\ UNCHANGED <<text, download_flag, save_dir, urls, url, status, image_urls,
                   i, fetched, downloaded_paths, raised, gets, response>>

(***************************************************************************)
(* Inputs of the extractor.                                                 *)
(***************************************************************************)
UrlPlain == <<"h","t","t","p",":","/","/","c",".","c","n","/","a","/","p","i","c">>
UrlPng == <<"h","t","t","p",":","/","/","c",".","c","n","/","a",".","P","N","G">>
UrlNoPath == <<"h","t","t","p",":","/","/","c",".","c","n">>
UrlDir == <<"h","t","t","p",":","/","/","c",".","c","n","/","d","/">>
UrlQuery == <<"h","t","t","p","s",":","/","/","c",".","c","n","/","b",".","g","i","f","?","x","=","1">>

\* The tags of one scalar name: none, one, or a tag without content before
\* one with content.
ScalarTags == {<<>>, <<Some("Hello")>>, <<None, Some("World")>>}
ImageTags == {Some(UrlPlain), Some(UrlPng), Some(<<>>), None}

Docs ==
    {[n \in TagNames |-> IF n = "og:image" THEN imgs ELSE sc[n]] :
        sc \in [ScalarNames -> ScalarTags],
        imgs \in SeqsUpTo(ImageTags, MaxImages)}

Bodies == {Parsed(d) : d \in Docs} \cup {Unparseable}

ExtractorInit ==
    /\ pc = "fetch"
    /\ text = <<>>
    /\ download_flag = FALSE
    /\ save_dir = DirImages
    /\ url = Some(PieceNote)
    /\ image_urls = <<>>
    /\ Idle

ExtractorNext == FetchPage \/ ParsePage(Bodies)

ExtractorSpec == ExtractorInit /\ [][ExtractorNext]_vars

Code == status[1].code
Failed4xx5xx == status[1].error \/ (400 <= Code /\ Code <= 599)

\* C5 as claimed: extract_xhs_content returns a record only for a 2xx
\* response; every status outside 200-299 gives None.
C5_Non2xxIsFailure ==
    (pc = "extracted" /\ content # None) =>
        (~status[1].error /\ 200 <= Code /\ Code <= 299)

\* C5 as amended: None when the GET raises or the status is 4xx or 5xx; for
\* every other status (1xx and unfollowed 3xx included) the body is parsed
\* and a record is returned unless the parsing raises.
C5_4xx5xxIsFailure ==
    pc = "extracted" =>
        IF Failed4xx5xx
        THEN content = None /\ html = None
        ELSE html # None /\ (content = None <=> ~html[1].parses)

\* A 304 answer that came back as a record.
C5_Witness ==
    /\ pc = "extracted"
    /\ ~status[1].error
    /\ Code = 304
    /\ content # None

FieldTag ==
    [title |-> "og:title", content |-> "description",
     likes |-> "og:xhs:note_like", comments |-> "og:xhs:note_comment",
     collects |-> "og:xhs:note_collect"]

\* The content value of a tag: its content attribute, '' when it has none.
ContentValue(tag) == IF tag = <<>> THEN "" ELSE tag[1]
NonEmptyContent(tag) == tag # <<>> /\ tag[1] # <<>>
Contents(tags) == [k \in 1..Len(tags) |-> tags[k][1]]

\* C7: of a page that was fetched and parsed the result is a record of the
\* six keys; each of title, content, likes, comments, collects is None exactly
\* when the page has no tag of its name and is otherwise the content value of
\* the first such tag, whatever the other tags are; image_urls is the
\* non-empty og:image contents in document order, so empty without og:image.
C7_FieldsIndependent ==
    (pc = "extracted" /\ html # None /\ html[1].parses) =>
        /\ content # None
        /\ DOMAIN content[1] =
               {"title", "content", "image_urls", "likes", "comments", "collects"}
        /\ \A f \in DOMAIN FieldTag :
               LET tags == html[1].doc[FieldTag[f]]
               IN  /\ content[1][f] = None <=> tags = <<>>
                   /\ tags # <<>> => content[1][f] = Some(ContentValue(tags[1]))
        /\ content[1].image_urls =
               Contents(SelectSeq(html[1].doc["og:image"], NonEmptyContent))
        /\ html[1].doc["og:image"] = <<>> => content[1].image_urls = <<>>

\* Some tags present, one of them twice, others absent.
C7_Witness ==
    /\ pc = "extracted"
    /\ content # None
    /\ content[1].title = Some("")
    /\ Len(html[1].doc["og:title"]) = 2
    /\ content[1].content = Some("Hello")
    /\ content[1].likes = None
    /\ content[1].image_urls = <<>>
    /\ html[1].doc["og:image"] = <<>>

(***************************************************************************)
(* download_images: the directory, then one GET per URL, each in its own    *)
(* try block.                                                               *)
(***************************************************************************)
\* The first position from p on whose character is in S, Len(u) + 1 if none.
RECURSIVE FirstOf(_, _, _)
FirstOf(u, p, S) ==
    IF p > Len(u) THEN Len(u) + 1
    ELSE IF u[p] \in S THEN p
    ELSE FirstOf(u, p + 1, S)

\* urlparse(url).path of scheme://netloc/path?query#fragment: what follows
\* the netloc, up to the query or the fragment.
UrlPath(u) ==
    LET colon == FirstOf(u, 1, {":"})
        rest == IF colon <= Len(u) THEN colon + 1 ELSE 1
        start == IF HasAt(u, rest, <<"/","/">>)
                 THEN FirstOf(u, rest + 2, {"/", "?", "#"})
                 ELSE rest
        stop == FirstOf(u, start, {"?", "#"})
    IN  SubSeq(u, start, stop - 1)

\* str.split('/'): never empty, [''] for the empty string.
RECURSIVE Split(_)
Split(str) ==
    LET k == FirstOf(str, 1, {"/"})
    IN  IF k > Len(str) THEN <<str>>
        ELSE <<SubSeq(str, 1, k - 1)>> \o Split(SubSeq(str, k + 1, Len(str)))

UpperCase == <<"A","B","C","D","E","F","G","H","I","J","K","L","M",
               "N","O","P","Q","R","S","T","U","V","W","X","Y","Z">>
LowerCase == <<"a","b","c","d","e","f","g","h","i","j","k","l","m",
               "n","o","p","q","r","s","t","u","v","w","x","y","z">>

LowerChar(c) ==
    IF \E k \in 1..26 : UpperCase[k] = c
    THEN LowerCase[CHOOSE k \in 1..26 : UpperCase[k] = c]
    ELSE c

\* str.lower()
Lower(str) == [k \in 1..Len(str) |-> LowerChar(str[k])]

\* str.endswith(suffix)
EndsWith(str, suffix) ==
    /\ Len(str) >= Len(suffix)
    /\ SubSeq(str, Len(str) - Len(suffix) + 1, Len(str)) = suffix

\* lit in str
Contains(str, lit) == \E k \in 1..Len(str) : HasAt(str, k, lit)

ExtJpg == <<".","j","p","g">>
ExtJpeg == <<".","j","p","e","g">>
ExtPng == <<".","p","n","g">>
ExtWebp == <<".","w","e","b","p">>
ImageExtensions == {ExtJpg, ExtJpeg, ExtPng, ExtWebp}

TypeJpeg == <<"i","m","a","g","e","/","j","p","e","g">>
TypePng == <<"i","m","a","g","e","/","p","n","g">>
TypeWebp == <<"i","m","a","g","e","/","w","e","b","p">>
TypeText == <<"t","e","x","t","/","p","l","a","i","n">>

\* Variant: the default extension whatever the header.
ExtForAlwaysJpg(header) == ExtJpg

\* content_type = response.headers.get('Content-Type', ''), lines 122-131
ExtFor(header) ==
    LET content_type == Get(header, <<>>)
    IN  IF Contains(content_type, TypeJpeg) THEN ExtJpg
        ELSE IF Contains(content_type, TypePng) THEN ExtPng
        ELSE IF Contains(content_type, TypeWebp) THEN ExtWebp
        ELSE ExtJpg

DigitChars == <<"0","1","2","3","4","5","6","7","8","9">>

\* str(n) of a natural number
RECURSIVE Decimal(_)
Decimal(n) ==
    IF n < 10 THEN <<DigitChars[n + 1]>>
    ELSE Decimal(n \div 10) \o <<DigitChars[(n % 10) + 1]>>

\* f"image_{i+1}{ext}"
IndexedName(k, ext) == <<"i","m","a","g","e","_">> \o Decimal(k + 1) \o ext

\* filename.lower().endswith(('.jpg', '.jpeg', '.png', '.webp'))
HasImageExtension(filename) ==
    \E e \in ImageExtensions : EndsWith(Lower(filename), e)

\* Lines 134-140: the last path segment, the indexed name only if split
\* returned no parts; the extension appended when the name has none.
FileName(u, k, ext) ==
    LET path_parts == Split(UrlPath(u))
        filename == IF path_parts # <<>> THEN Last(path_parts)
                    ELSE IndexedName(k, ext)
    IN  IF ~HasImageExtension(filename) THEN filename \o ext ELSE filename

\* os.path.join(save_dir, filename); filename holds no '/'
Join(dir, filename) ==
    IF dir = <<>> THEN filename
    ELSE IF Last(dir) = "/" THEN dir \o filename
    ELSE dir \o <<"/">> \o filename

FilePath(dir, u, k, header) == Join(dir, FileName(u, k, ExtFor(header)))

\* What one pass of the loop body meets: a response that is written; or an
\* exception from requests.get, from raise_for_status, or from open/write.
ContentTypeHeaders == {Some(TypeJpeg), Some(TypePng), Some(TypeWebp), Some(TypeText), None}
Failures == {"ConnectionError", "HTTPError", "OSError"}
DownloadOutcomes ==
    {[result |-> "ok", content_type |-> h] : h \in ContentTypeHeaders}
    \cup {[result |-> f, content_type |-> None] : f \in Failures}

\* if not os.path.exists(save_dir): os.makedirs(save_dir)   (outside any try)
MakeDirs ==
    /\ pc = "makedirs"
    /\ \E dir \in {"exists", "created", "failed"} :
        IF dir = "failed"
        THEN pc' = "downloaded" /\ raised' = Some(OSError(MsgMakedirs))
        ELSE pc' = "loop" /\ UNCHANGED raised
    /\ i' = 0
    /\ downloaded_paths' = <<>>
    /\ UNCHANGED <<text, download_flag, save_dir, urls, url, status, html, content,
                   image_urls, fetched, gets, response>>

\* One pass of the for loop, lines 115-151.
Attempt(o) ==
    /\ gets' = Append(gets, ImageGet(i))
    /\ IF o.result = "ok"
       THEN LET file_path == FilePath(save_dir, image_urls[i + 1], i, o.content_type)
            IN  /\ downloaded_paths' = Append(downloaded_paths, file_path)
                /\ fetched' = Append(fetched,
                       [result |-> "ok", content_type |-> o.content_type,
                        file |-> Some(file_path)])
       ELSE /\ UNCHANGED downloaded_paths
            /\ fetched' = Append(fetched,
                   [result |-> o.result, content_type |-> o.content_type,
                    file |-> None])

\* Variant: the first failure ends the loop.
DownloadOneAbort ==
    /\ pc = "loop"
    /\ i < Len(image_urls)
    /\ \E o \in DownloadOutcomes :
        /\ Attempt(o)
        /\ IF o.result = "ok"
           THEN i' = i + 1 /\ pc' = pc
           ELSE i' = Len(image_urls) /\ pc' = pc
    /\ UNCHANGED <<text, download_flag, save_dir, urls, url, status, html, content,
                   image_urls, raised, response>>

\* Variant: a failed URL is requested again.
DownloadOneRetry ==
    /\ pc = "loop"
    /\ i < Len(image_urls)
    /\ \E o \in DownloadOutcomes :
        /\ Attempt(o)
        /\ IF o.result = "ok" \/ Len(gets) > Len(image_urls)
           THEN i' = i + 1
           ELSE i' = i
    /\ UNCHANGED <<pc, text, download_flag, save_dir, urls, url, status, html,
                   content, image_urls, raised, response>>

\* for i, url in enumerate(image_urls): try: ... except Exception: print
DownloadOne ==
    /\ pc = "loop"
    /\ i < Len(image_urls)
    /\ \E o \in DownloadOutcomes : Attempt(o)
    /\ i' = i + 1
    /\ UNCHANGED <<pc, text, download_flag, save_dir, urls, url, status, html,
                   content, image_urls, raised, response>>

\* return downloaded_paths
ReturnPaths ==
    /\ pc = "loop"
    /\ i = Len(image_urls)
    /\ pc' = "downloaded"
    /\ UNCHANGED <<text, download_flag, save_dir, urls, url, status, html, content,
                   image_urls, i, fetched, downloaded_paths, raised, gets, response>>

(***************************************************************************)
(* Inputs of the downloader.                                                *)
(***************************************************************************)
ImageUrlSet == {UrlPlain, UrlPng, UrlNoPath, UrlDir, UrlQuery}

DownloaderInit ==
    /\ pc = "makedirs"
    /\ text = <<>>
    /\ download_flag = TRUE
    /\ save_dir = DirImages
    /\ url = None
    /\ image_urls \in SeqsUpTo(ImageUrlSet, MaxImages)
    /\ Idle

DownloaderNext == MakeDirs \/ DownloadOne \/ ReturnPaths

DownloaderSpec == DownloaderInit /\ [][DownloaderNext]_vars

IsOk(f) == f.result = "ok"
FileOf(f) == f.file[1]
Files(fs) == [k \in 1..Len(fs) |-> FileOf(fs[k])]
LastSegment(u) == Last(Split(UrlPath(u)))

ExpectedExt(header) ==
    CASE header = Some(TypeJpeg) -> ExtJpg
      [] header = Some(TypePng) -> ExtPng
      [] header = Some(TypeWebp) -> ExtWebp
      [] OTHER -> ExtJpg

\* C8 as claimed: a downloaded URL without a last path segment is written as
\* image_<position, from 1> plus the inferred extension; any other under its
\* last path segment.
C8_IndexedNameWithoutSegment ==
    \A k \in 1..Len(fetched) :
        IsOk(fetched[k]) =>
            LET seg == LastSegment(image_urls[k])
                ext == ExpectedExt(fetched[k].content_type)
            IN  IF seg = <<>>
                THEN FileOf(fetched[k]) = Join(save_dir, IndexedName(k - 1, ext))
                ELSE FileOf(fetched[k]) \in
                         {Join(save_dir, seg), Join(save_dir, seg \o ext)}

\* C9: a downloaded URL whose last path segment ends in none of .jpg, .jpeg,
\* .png, .webp (in any case) is written to a path that ends in the extension
\* of its Content-Type: .jpg, .png, .webp for image/jpeg, image/png,
\* image/webp, and .jpg for any other or no content type.
C9_ExtensionFromContentType ==
    \A k \in 1..Len(fetched) :
        (/\ IsOk(fetched[k])
         /\ \A e \in ImageExtensions : ~EndsWith(Lower(LastSegment(image_urls[k])), e))
        => EndsWith(FileOf(fetched[k]), ExpectedExt(fetched[k].content_type))

\* image/png and text/plain answers for URLs without an extension.
C9_Witness ==
    /\ pc = "downloaded"
    /\ raised = None
    /\ image_urls = <<UrlPlain, UrlQuery>>
    /\ fetched[1].content_type = Some(TypePng)
    /\ fetched[2].content_type = Some(TypeText)
    /\ EndsWith(downloaded_paths[1], ExtPng)
    /\ EndsWith(downloaded_paths[2], ExtJpg)

(***************************************************************************)
(* The /extract handler after the URL is located, lines 43-60.              *)
(***************************************************************************)
\* Variant: a record without title and content counts as nothing.
TruthyHasText(c) ==
    c # None /\ (c[1].title \notin {None, Some("")} \/ c[1].content \notin {None, Some("")})

\* not content: None is falsy, the dict of six keys is truthy.
Truthy(c) == c # None /\ DOMAIN c[1] # {}

\* Lines 45-56 up to the call of download_images.
CheckContent ==
    /\ pc = "extracted"
    /\ IF ~Truthy(content)
       THEN /\ response' = ErrorResponse(CatchAll(HTTPException(400, MsgNoContent)))
            /\ pc' = "done"
            /\ UNCHANGED image_urls
       ELSE IF download_flag /\ content[1].image_urls # <<>>
       THEN /\ image_urls' = content[1].image_urls
            /\ pc' = "makedirs"
            /\ UNCHANGED response
       ELSE /\ response' = OkResponse(content[1])
            /\ pc' = "done"
            /\ UNCHANGED image_urls
    /\ UNCHANGED <<text, download_flag, save_dir, urls, url, status, html, content,
                   i, fetched, downloaded_paths, raised, gets>>

\* Lines 52-60 after download_images has returned or raised.
AfterDownload ==
    /\ pc = "downloaded"
    /\ response' =
         IF raised # None THEN ErrorResponse(CatchAll(raised[1]))
         ELSE IF downloaded_paths = <<>>
         THEN ErrorResponse(CatchAll(HTTPException(500, MsgImagesFailed)))
         ELSE OkResponse(content[1])
    /\ pc' = "done"
    /\ UNCHANGED <<text, download_flag, save_dir, urls, url, status, html, content,
                   image_urls, i, fetched, downloaded_paths, raised, gets>>

(***************************************************************************)
(* Inputs of a request.                                                     *)
(***************************************************************************)
RequestTexts == {Flatten(ps) : ps \in SeqsUpTo(Pieces, 1)}

RequestDocs ==
    {[n \in TagNames |-> IF n = "og:image" THEN imgs ELSE sc] :
        sc \in {<<>>, <<Some("Hello")>>},
        imgs \in SeqsUpTo({Some(UrlPlain)}, MaxImages)}

RequestBodies == {Parsed(d) : d \in RequestDocs} \cup {Unparseable}

Init ==
    /\ pc = "locate"
    /\ text \in RequestTexts
    /\ download_flag \in BOOLEAN
    /\ save_dir = DirImages
    /\ url = None
    /\ image_urls = <<>>
    /\ Idle

Next ==
    \/ Locate
    \/ FetchPage
    \/ ParsePage(RequestBodies)
    \/ CheckContent
    \/ MakeDirs
    \/ DownloadOne
    \/ ReturnPaths
    \/ AfterDownload

Spec == Init /\ [][Next]_vars

PageFetchFailed == status # None /\ Failed4xx5xx
ImageGets == {k \in 1..Len(gets) : gets[k].kind = "image"}

\* C3: with no URL located nothing is ever requested and the request ends at
\* once in an error; with the page fetch failed no image is ever requested
\* and the request ends in an error; in neither case is a record, whole or
\* partial, returned.
C3_FailFast ==
    /\ (pc # "locate" /\ urls = <<>>) =>
        /\ pc = "done"
        /\ gets = <<>>
        /\ response.kind = "error" /\ response.body = None
    /\ PageFetchFailed =>
        /\ pc \in {"extracted", "done"}
        /\ gets = <<PageGet>>
        /\ content = None
        /\ pc = "done" => (response.kind = "error" /\ response.body = None)

\* A request that asked for the images and whose page answered 404.
C3_Witness ==
    /\ pc = "done"
    /\ download_flag
    /\ PageFetchFailed
    /\ Code = 404
    /\ response.kind = "error"

\* The exception each failure condition raises inside the try block.
RaisedFor ==
    [nourl     |-> HTTPException(400, MsgNoUrl),
     nocontent |-> HTTPException(400, MsgNoContent),
     noimages  |-> HTTPException(500, MsgImagesFailed)]

Cause ==
    IF urls = <<>> THEN "nourl"
    ELSE IF content = None THEN "nocontent"
    ELSE IF raised = None /\ downloaded_paths = <<>> THEN "noimages"
    ELSE "other"

\* C4: an answer that is an error for one of the three conditions (no URL,
\* nothing extracted, no image downloaded) carries, after the catch-all has
\* wrapped it, the message of its own condition, and that message is not the
\* message either of the other two conditions ends with.
C4_DistinctMessages ==
    (pc = "done" /\ response.kind = "error" /\ Cause \in DOMAIN RaisedFor) =>
        /\ response.detail = CatchAll(RaisedFor[Cause]).detail
        /\ \A c \in DOMAIN RaisedFor \ {Cause} :
               response.detail # CatchAll(RaisedFor[c]).detail

\* The images were asked for and every download failed.
C4_Witness ==
    /\ pc = "done"
    /\ response.kind = "error"
    /\ Cause = "noimages"
    /\ Len(fetched) = 2

AllNull ==
    /\ content # None
    /\ content[1].title = None
    /\ content[1].content = None
    /\ content[1].image_urls = <<>>

\* C6 as claimed: a page without any of the known tags, whose record has no
\* title, no content and no images, is answered with an error.
C6_AllNullIsFailure == (pc = "done" /\ AllNull) => response.kind = "error"

\* C6 as amended: such a record is returned as the successful response; the
\* handler raises the extraction error exactly when extract_xhs_content
\* returned None.
C6_AllNullIsReturned ==
    /\ (pc = "done" /\ AllNull) => response = OkResponse(content[1])
    /\ (pc = "done" /\ urls # <<>>) =>
           (response.detail = CatchAll(RaisedFor.nocontent).detail <=> content = None)

\* A 200 page without tags, answered with the all-null record.
C6_Witness ==
    /\ pc = "done"
    /\ AllNull
    /\ content[1].likes = None
    /\ Code = 200
    /\ response.kind = "ok"

\* C10: the page is requested at most once and before any image; the images
\* are requested one position after another, each position at most once,
\* whatever the earlier requests met, and only once the page has been
\* fetched and extracted.
C10_NoRetry ==
    /\ \A k \in 1..Len(gets) : gets[k] = IF k = 1 THEN PageGet ELSE ImageGet(k - 2)
    /\ Len(gets) <= 1 + Len(image_urls)
    /\ ImageGets # {} => (status # None /\ ~Failed4xx5xx /\ content # None)

\* Two images requested after the page, the first of which failed.
C10_Witness ==
    /\ pc = "done"
    /\ gets = <<PageGet, ImageGet(0), ImageGet(1)>>
    /\ fetched[1].result = "ConnectionError"
    /\ fetched[2].result = "ok"

=============================================================================
